---- MODULE Spec2Model ----
(***************************************************************************)
(* The peer-connection session registry of the voice agent                 *)
(* (src/p2p-webrtc/voice-agent/server.py) and the avatar client and bot    *)
(* tasks it drives (src/p2p-webrtc/voice-agent/bot.py).                    *)
(*                                                                         *)
(* Everything runs on one asyncio event loop: a coroutine runs without     *)
(* interruption from one await that really suspends to the next.  Each     *)
(* action below is one such segment of one handler.  The segments are cut  *)
(* at: SmallWebRTCConnection.initialize / renegotiate, the HTTP POST, GET  *)
(* and DELETE of TavusIntegration, and PipelineRunner.run.                 *)
(*                                                                         *)
(* server.tavus_integrations, as written by bot.py through "import         *)
(* server", is taken to be the very dictionary the endpoints read (the     *)
(* application is served as module "server").                              *)
(***************************************************************************)
EXTENDS Integers, Sequences, FiniteSets, TLC

\* Bounds of the model.
MaxConns == 1      \* connections (sessions) ever created
MaxEnds == 2       \* POST /api/tavus/end/{pc_id} requests ever received
MaxReneg == 1      \* signaling requests that take the renegotiation path
TeardownEnds == 1  \* end requests received under SpecTeardown
RegistryConns == 2 \* connections ever created under SpecRegistry, SpecReuse
ReuseReneg == 2    \* renegotiating requests received under SpecReuse
MaxMalformed == 1  \* signaling requests with an incomplete offer
MaxStandalone == 1 \* requests to the standalone create endpoints
MaxQueries == 1    \* GET requests to the read-only avatar endpoints

\* Python's None (an unset attribute, an absent request field).
None == 0

\* The largest of a set of bounds.
Largest(S) == CHOOSE n \in S : \A m \in S : m <= n

\* The connection objects and the renegotiating requests there can be; each
\* specification creates as many of them as its own bound allows.
Conns == 1..Largest({MaxConns, RegistryConns})
SigReqs == 1..Largest({MaxReneg, ReuseReneg})
\* The pc_id the transport library assigns to connection c (unique per
\* connection object), and the id the provider assigns to the conversation
\* created for connection c's integration.
PcId(c) == c
ConvId(c) == c
PcIds == {PcId(c) : c \in Conns}
ConvIds == {ConvId(c) : c \in Conns}
\* The requests to the standalone create endpoints, and the id the provider
\* assigns to the conversation created for request s.
Standalones == 1..MaxStandalone
StandaloneConvId(s) == Cardinality(Conns) + s

Endpoints == {"offer", "founder", "admin"}

\* What an HTTP call to the avatar provider can come back with.
Response(s) == [kind |-> "response", status |-> s]
Raised == [kind |-> "exception", status |-> None]
CreateOutcomes == {Response(200), Response(201), Response(429), Raised}
DeleteOutcomes == {Response(200), Response(404), Raised}
StatusOutcomes == {Response(200), Response(500), Raised}
\* No HTTP call was made, so there is no outcome.
NoOutcome == [kind |-> "none", status |-> None]
\* The two required fields of an offer payload.
OfferFields == {"sdp", "type"}

\* The avatar settings of the environment (TAVUS_API_KEY, TAVUS_REPLICA_ID,
\* TAVUS_PERSONA_ID).  EnvChoices: the key is configured, and the two ids are
\* both configured or both missing.  ConfigChoices: every combination.
EnvChoices == {[api_key |-> TRUE, replica_id |-> TRUE, persona_id |-> TRUE],
               [api_key |-> TRUE, replica_id |-> FALSE, persona_id |-> FALSE]}
ConfigChoices == [api_key : BOOLEAN, replica_id : BOOLEAN, persona_id : BOOLEAN]

\* The company_data field of a request body: absent (the handler takes {}),
\* an empty object, or an object with fields.
CompanyData == {"absent", "empty", "given"}

VARIABLES
    env,                        \* os.getenv: which avatar settings are configured
    pcs_map,                    \* server.pcs_map: pc_id -> connection (None: no key)
    tavus_integrations,         \* server.tavus_integrations, in insertion order
    latest_tavus_conversation,  \* server.latest_tavus_conversation
    conn,                       \* the SmallWebRTCConnection objects
    tavus,                      \* the TavusIntegration object of each session
    bot,                        \* the background task of each session
    closedH,                    \* the server's "closed" handler of each connection
    discH,                      \* the bot's on_client_disconnected handler
    connH,                      \* the bot's on_client_connected handler
    sig,                        \* signaling requests on the renegotiation path
    endReq,                     \* POST /api/tavus/end/{pc_id} requests
    resp,                       \* the response to the request that created c
    posts,                      \* create POSTs issued, per session
    deletes,                    \* DELETE requests issued, per conversation id
    status,                     \* on_client_connected's status query, per session
    app,                        \* the served application (uvicorn.run)
    malformed,                  \* signaling requests with an incomplete offer
    standalone,                 \* requests to the standalone create endpoints
    queries                     \* GET requests to the read-only endpoints

vars == <<env, pcs_map, tavus_integrations, latest_tavus_conversation, conn,
          tavus, bot, closedH, discH, connH, sig, endReq, resp, posts, deletes,
          status, app, malformed, standalone, queries>>

----------------------------------------------------------------------------
\* Python dict operations on the two registries.

\* pcs_map: "pc_id in pcs_map", pcs_map[pc_id] = c, pcs_map.pop(pc_id, None)
InPcsMap(m, p) == p \in DOMAIN m /\ m[p] # None
\* (a signaling handler that returned its answer without the store)
StoreConnectionOmitted(m, p, c) == m
\* (a store that rebinds pcs_map to a dict of the one connection)
StoreConnectionOnly(m, p, c) == [q \in DOMAIN m |-> IF q = p THEN c ELSE None]
StoreConnection(m, p, c) == [m EXCEPT ![p] = c]
PopConnection(m, p) == [m EXCEPT ![p] = None]
PcsKeys(m) == {p \in DOMAIN m : m[p] # None}

\* tavus_integrations: a dict keeps its keys in insertion order; assigning to
\* an existing key keeps the key's place.
TavusKeys(d) == {d[i].pc_id : i \in DOMAIN d}
InTavus(d, p) == p \in TavusKeys(d)
TavusOf(d, p) == (CHOOSE i \in DOMAIN d : d[i].pc_id = p)
TavusGet(d, p) == d[TavusOf(d, p)].tavus
TavusPut(d, p, t) ==
    IF InTavus(d, p)
    THEN [d EXCEPT ![TavusOf(d, p)] = [pc_id |-> p, tavus |-> t]]
    ELSE Append(d, [pc_id |-> p, tavus |-> t])
TavusDel(d, p) == SelectSeq(d, LAMBDA e : e.pc_id # p)

----------------------------------------------------------------------------
\* TavusIntegration

NewTavus == [conversation_id |-> None, conversation_url |-> None,
             conversation_data |-> None]

\* The conversation type of the integration of a session created through
\* endpoint ep: run_admin_tavus_bot sets "yc_interview" (its default
\* argument), the integration of run_bot keeps the constructor's "general".
ConversationType(ep) == IF ep = "admin" THEN "yc_interview" ELSE "general"

\* The company_context of the integration: run_admin_tavus_bot and the
\* standalone create endpoint assign the request's company_data ({} when the
\* field is absent); otherwise it stays None.
CompanyContext(ep, k) ==
    IF ep \in {"admin", "create"}
    THEN (IF k = "given" THEN "given" ELSE "empty")
    ELSE "None"

\* Python truth of a company_context: None and {} are false.
Truthy(ctx) == ctx = "given"

\* create_conversation: which conversational context, name and greeting go
\* into the payload.
ContextVariant(type, ctx) ==
    IF type = "yc_interview" /\ Truthy(ctx) THEN "interview"
    ELSE IF type = "registration" THEN "registration"
    ELSE "general"

\* (a create_conversation that adds every id it has)
PayloadIdsAll(e) ==
    {f \in {"persona_id", "replica_id"} :
        \/ f = "persona_id" /\ e.persona_id
        \/ f = "replica_id" /\ e.replica_id}

\* create_conversation: which id keys the payload carries: "if
\* self.persona_id: ... elif self.replica_id: ... else: return None".
PayloadIds(e) ==
    IF e.persona_id THEN {"persona_id"}
    ELSE IF e.replica_id THEN {"replica_id"}
    ELSE {}

\* create_conversation: the "properties" of every payload.
PayloadProperties == [participant_left_timeout |-> 0, language |-> "english"]

\* The payload of the create POST: the context and the id keys.
CreatePayload(type, ctx, e) ==
    [conversation_type |-> type, company_context |-> ctx,
     context |-> ContextVariant(type, ctx),
     ids |-> PayloadIds(e), properties |-> PayloadProperties]
\* No create POST is in flight.
NoPayload ==
    [conversation_type |-> "none", company_context |-> "none",
     context |-> "none", ids |-> {},
     properties |-> [participant_left_timeout |-> None, language |-> "none"]]

\* (a create endpoint that stores the result before testing it)
LatestAfterCreateAlways(latest, data) == data

\* The standalone create endpoints, after create_conversation returned
\* data: "if conversation_data: latest_tavus_conversation =
\* conversation_data".
LatestAfterCreate(latest, data) == IF data # None THEN data ELSE latest

\* (a create_conversation that posts whatever ids it has)
CreateCanPostAlways(e) == TRUE

\* create_conversation, before the POST: a persona or a replica is needed.
CreateCanPost(e) == e.persona_id \/ e.replica_id

\* (a create_conversation that read the ids from every response body)
CreateApplyAnyStatus(t, o, id) ==
    IF o.kind = "response"
    THEN [t EXCEPT !.conversation_id = id, !.conversation_url = id]
    ELSE t

\* create_conversation, after the POST: the integration, given the outcome o
\* of the POST and the id the provider assigned.
CreateApply(t, o, id) ==
    IF o.kind = "response" /\ o.status \in {200, 201}
    THEN [t EXCEPT !.conversation_id = id, !.conversation_url = id]
    ELSE t

\* (a create_conversation that took only 200 for success)
CreateDataOnly200(o, id) ==
    IF o.kind = "response" /\ o.status = 200 THEN id ELSE None

\* create_conversation's return value: the response data (it carries the
\* conversation's id), or None.
CreateData(o, id) ==
    IF o.kind = "response" /\ o.status \in {200, 201} THEN id ELSE None

\* How a create_conversation that returned None failed: the provider refused
\* (a status other than 200 and 201) or the request raised.
CreateFailure(o) == IF o.kind = "response" THEN "refused" ELSE "raised"

\* get_conversation_status: "if not self.conversation_id: return
\* {status: no_conversation}", else the GET is issued and the coroutine
\* suspends.
StatusIssues(t) == t.conversation_id # None

StatusSentinel == "no_conversation"

\* (a get_conversation_status that returned the body of every response)
StatusResultAnyResponse(o) ==
    IF o.kind = "response" THEN "payload" ELSE "error"

\* get_conversation_status, after the GET: the provider's payload on 200,
\* {status: error} on another status and when the request raised.
StatusResult(o) ==
    IF o.kind = "response" /\ o.status = 200 THEN "payload" ELSE "error"

\* on_client_connected has not queried the status: no GET issued, no reply,
\* no result.
NoStatus == [gets |-> 0, reply |-> NoOutcome, result |-> "none"]

\* (an end_conversation without its guard)
EndConversationUnguarded(t) == TRUE

\* end_conversation: "if not self.conversation_id: return", else the DELETE
\* for self.conversation_id is issued and the coroutine suspends.
EndConversationIssues(t) == t.conversation_id # None

\* (an end_conversation without its finally block)
EndConversationKeepsId(t) == t

\* end_conversation, after the DELETE came back (any outcome): finally.
EndConversationFinish(t) == [t EXCEPT !.conversation_id = None]

\* (an end_conversation that builds its URL after the id was cleared)
IssueDeleteForUnset(d, id) == [d EXCEPT ![None] = @ + 1]

\* The DELETE for conversation id goes out (the request URL is built from
\* conversation_id as it is when end_conversation is called).
IssueDelete(d, id) == [d EXCEPT ![id] = @ + 1]

\* A request to a standalone create endpoint that has not arrived.
NoStandalone ==
    [st |-> "idle", endpoint |-> "none", code |-> None, data |-> None,
     posts |-> 0, payload |-> NoPayload, response |-> NoOutcome]

\* The body of a response of the read-only endpoints: the pc_id and the
\* conversation data (latest, conversation), the status and the two sizes
\* (status), the list of entries (conversations).
NoBody ==
    [pc_id |-> None, data |-> None, status |-> "none",
     active_connections |-> None, tavus_integrations |-> None,
     conversations |-> << >>]
\* The iterator of "for pc_id, tavus in tavus_integrations.items()": the
\* size the dict had when the iterator was made, the keys it has yielded,
\* and the item the loop body is working on.
NoItem == [pc_id |-> None, tavus |-> None]
NoIter == [used |-> 0, yielded |-> {}, cur |-> NoItem]
\* A request to a read-only endpoint that has not arrived.
NoQuery ==
    [st |-> "idle", endpoint |-> "none", pc_id |-> None, code |-> None,
     body |-> NoBody, iter |-> NoIter]

----------------------------------------------------------------------------
\* The state of the module after import, but for the environment.
InitState ==
    /\ pcs_map = [p \in PcIds |-> None]
    /\ tavus_integrations = << >>
    /\ latest_tavus_conversation = None
    /\ conn = [c \in Conns |-> [kind |-> "none", state |-> "unborn"]]
    /\ tavus = [c \in Conns |-> NewTavus]
    /\ bot = [c \in Conns |-> [pc |-> "none", create |-> "none",
                               response |-> NoOutcome, bound |-> FALSE,
                               conversation_id |-> None, error |-> "none",
                               payload |-> NoPayload]]
    /\ closedH = [c \in Conns |-> "idle"]
    /\ discH = [c \in Conns |-> "idle"]
    /\ connH = [c \in Conns |-> "idle"]
    /\ sig = [r \in SigReqs |-> [st |-> "idle", pc_id |-> None,
                                     conn |-> None]]
    /\ endReq = [e \in 1..MaxEnds |-> [st |-> "idle", pc_id |-> None,
                                      tavus |-> None]]
    /\ resp = [c \in Conns |-> "none"]
    /\ posts = [c \in Conns |-> 0]
    /\ deletes = [id \in ConvIds \cup {None} |-> 0]
    /\ status = [c \in Conns |-> NoStatus]
    /\ app = [st |-> "serving", disconnected |-> {}]
    /\ malformed = [m \in 1..MaxMalformed |->
                       [st |-> "idle", code |-> None, path |-> "none",
                        missing |-> "none"]]
    /\ standalone = [s \in Standalones |-> NoStandalone]
    /\ queries = [q \in 1..MaxQueries |-> NoQuery]

Init == env \in EnvChoices /\ InitState

\* The same with every combination of the avatar settings.
InitConfig == env \in ConfigChoices /\ InitState

----------------------------------------------------------------------------
\* Signaling: POST /api/offer, /api/register-founder, /api/admin-tavus.
\* The three handlers share their shape; ep names the endpoint, p is the
\* request's pc_id (None when the field is absent).

Born == {c \in Conns : conn[c].state # "unborn"}

\* The process is running: requests are served, tasks and handlers run.
\* Every step below is a step of the running process.
Serving == app.st = "serving"

\* "if pc_id and pc_id in pcs_map"
TakesExisting(p) == p # None /\ InPcsMap(pcs_map, p)

\* The new-session path up to "await pipecat_connection.initialize(...)":
\* a connection object is constructed.
SignalNewStart(ep, p) ==
    /\ Serving
    /\ ~TakesExisting(p)
    /\ Cardinality(Born) < Cardinality(Conns)
    /\ LET c == Cardinality(Born) + 1 IN
       conn' = [conn EXCEPT ![c] = [kind |-> ep, state |-> "initializing"]]
    /\ UNCHANGED <<status, app, malformed, standalone, queries>>
    /\ UNCHANGED <<env, pcs_map, tavus_integrations, latest_tavus_conversation,
                   tavus, bot, closedH, discH, connH, sig, endReq, resp, posts,
                   deletes>>

\* The new-session path after initialize: the "closed" handler is registered,
\* the integration is constructed (offer), the bot is added as a background
\* task (run after the response is sent), the connection is stored under the
\* pc_id of its answer, and the answer is returned.
SignalNewFinish(c) ==
    /\ Serving
    /\ conn[c].state = "initializing"
    /\ conn' = [conn EXCEPT ![c].state = "open"]
    /\ tavus' = [tavus EXCEPT ![c] = NewTavus]
    /\ bot' = [bot EXCEPT ![c].pc = "scheduled"]
    /\ pcs_map' = StoreConnection(pcs_map, PcId(c), c)
    /\ resp' = [resp EXCEPT ![c] = "answered"]
    /\ UNCHANGED <<status, app, malformed, standalone, queries>>
    /\ UNCHANGED <<env, tavus_integrations, latest_tavus_conversation, closedH,
                   discH, connH, sig, endReq, posts, deletes>>

\* The renegotiation path up to "await pipecat_connection.renegotiate(...)".
SignalExistingStart(r, ep, p) ==
    /\ Serving
    /\ sig[r].st = "idle"
    /\ \A q \in 1..(r - 1) : sig[q].st # "idle"
    /\ TakesExisting(p)
    /\ sig' = [sig EXCEPT ![r] = [st |-> "renegotiate", pc_id |-> p,
                                  conn |-> pcs_map[p]]]
    /\ UNCHANGED <<status, app, malformed, standalone, queries>>
    /\ UNCHANGED <<env, pcs_map, tavus_integrations, latest_tavus_conversation,
                   conn, tavus, bot, closedH, discH, connH, endReq, resp, posts,
                   deletes>>

\* The renegotiation path after renegotiate returned: get_answer, store the
\* connection under the answer's pc_id, return the answer.
SignalExistingFinish(r) ==
    /\ Serving
    /\ sig[r].st = "renegotiate"
    /\ pcs_map' = StoreConnection(pcs_map, PcId(sig[r].conn), sig[r].conn)
    /\ sig' = [sig EXCEPT ![r] = [st |-> "answered", pc_id |-> @.pc_id,
                                  conn |-> None]]
    /\ UNCHANGED <<status, app, malformed, standalone, queries>>
    /\ UNCHANGED <<env, tavus_integrations, latest_tavus_conversation, conn,
                   tavus, bot, closedH, discH, connH, endReq, resp, posts,
                   deletes>>

\* renegotiate raised (the transport refused the offer): the request ends in
\* an error response and nothing is stored.
SignalExistingFails(r) ==
    /\ Serving
    /\ sig[r].st = "renegotiate"
    /\ sig' = [sig EXCEPT ![r] = [st |-> "failed", pc_id |-> @.pc_id,
                                  conn |-> None]]
    /\ UNCHANGED <<status, app, malformed, standalone, queries>>
    /\ UNCHANGED <<env, pcs_map, tavus_integrations, latest_tavus_conversation,
                   conn, tavus, bot, closedH, discH, connH, endReq, resp, posts,
                   deletes>>

----------------------------------------------------------------------------
\* The background task: run_bot (offer), run_admin_tavus_bot (admin),
\* run_founder_bot (founder).

\* (a founder bot that creates an avatar conversation like the others)
CallsCreateAlways(ep) == TRUE

\* Which background task calls create_conversation: run_bot and
\* run_admin_tavus_bot do, run_founder_bot has no integration.
CallsCreate(ep) == ep # "founder"

\* From the task's start to its first suspension.  run_founder_bot builds its
\* transport and pipeline and suspends in runner.run.  The other two call
\* create_conversation: without persona and replica it returns None at once
\* (conversation_id, the local of the bot, is then never bound), otherwise
\* the POST is issued.  k is the company_data of the request that created
\* the session; run_admin_tavus_bot is the only one to read it.
BotStart(c, k) ==
    /\ Serving
    /\ bot[c].pc = "scheduled"
    /\ IF ~CallsCreate(conn[c].kind)
       THEN /\ bot' = [bot EXCEPT ![c].pc = "running"]
            /\ posts' = posts
       ELSE IF ~CreateCanPost(env)
       THEN /\ bot' = [bot EXCEPT ![c].pc = "running",
                                  ![c].create = "precondition"]
            /\ posts' = posts
       ELSE /\ bot' = [bot EXCEPT ![c].pc = "creating",
                                  ![c].payload =
                                     CreatePayload(
                                        ConversationType(conn[c].kind),
                                        CompanyContext(conn[c].kind, k),
                                        env)]
            /\ posts' = [posts EXCEPT ![c] = @ + 1]
    /\ UNCHANGED <<status, app, malformed, standalone, queries>>
    /\ UNCHANGED <<env, pcs_map, tavus_integrations, latest_tavus_conversation,
                   conn, tavus, closedH, discH, connH, sig, endReq, resp,
                   deletes>>

\* The POST came back with outcome o.  On success the bot binds its local
\* conversation_id, keeps the data on the integration, registers the
\* integration under the connection's pc_id and records the latest data.
\* Then, in both cases, the transport and the pipeline are built (the bot's
\* event handlers are registered) and the task suspends in runner.run.
BotCreateReturns(c, o) ==
    /\ Serving
    /\ bot[c].pc = "creating"
    /\ LET t == CreateApply(tavus[c], o, ConvId(c))
           data == CreateData(o, ConvId(c))
       IN IF data # None
          THEN /\ bot' = [bot EXCEPT ![c] = [pc |-> "running", create |-> "data",
                                             response |-> o, bound |-> TRUE,
                                             conversation_id |-> data,
                                             error |-> "none",
                                             payload |-> NoPayload]]
               /\ tavus' = [tavus EXCEPT ![c] =
                               [t EXCEPT !.conversation_data = data]]
               /\ tavus_integrations' = TavusPut(tavus_integrations, PcId(c), c)
               /\ latest_tavus_conversation' = data
          ELSE /\ bot' = [bot EXCEPT ![c].pc = "running",
                                     ![c].create = CreateFailure(o),
                                     ![c].response = o,
                                     ![c].payload = NoPayload]
               /\ tavus' = [tavus EXCEPT ![c] = t]
               /\ UNCHANGED <<tavus_integrations, latest_tavus_conversation>>
    /\ UNCHANGED <<status, app, malformed, standalone, queries>>
    /\ UNCHANGED <<env, pcs_map, conn, closedH, discH, connH, sig, endReq, resp,
                   posts, deletes>>

\* The transport reports the client connected: on_client_connected runs.
\* In run_bot it reads the local conversation_id (a NameError when the local
\* was never bound) and, when the id is set, calls get_conversation_status,
\* which returns its sentinel at once or issues the GET and suspends; then
\* the kickoff frames are queued.  The other two bots queue their frames
\* directly.
ClientConnected(c) ==
    /\ Serving
    /\ conn[c].state = "open"
    /\ bot[c].pc = "running"
    /\ connH[c] = "idle"
    /\ IF conn[c].kind # "offer"
       THEN /\ connH' = [connH EXCEPT ![c] = "queued"]
            /\ UNCHANGED status
       ELSE IF ~bot[c].bound
       THEN /\ connH' = [connH EXCEPT ![c] = "error"]
            /\ UNCHANGED status
       ELSE IF bot[c].conversation_id = None
       THEN /\ connH' = [connH EXCEPT ![c] = "queued"]
            /\ UNCHANGED status
       ELSE IF StatusIssues(tavus[c])
       THEN /\ connH' = [connH EXCEPT ![c] = "status"]
            /\ status' = [status EXCEPT ![c].gets = @ + 1]
       ELSE /\ connH' = [connH EXCEPT ![c] = "queued"]
            /\ status' = [status EXCEPT ![c].result = StatusSentinel]
    /\ UNCHANGED <<app, malformed, standalone, queries>>
    /\ UNCHANGED <<env, pcs_map, tavus_integrations, latest_tavus_conversation,
                   conn, tavus, bot, closedH, discH, sig, endReq, resp, posts,
                   deletes>>

\* The GET of get_conversation_status came back with outcome o: the result
\* is returned to on_client_connected, which logs it and queues the frames.
ClientConnectedStatusReturns(c, o) ==
    /\ Serving
    /\ connH[c] = "status"
    /\ connH' = [connH EXCEPT ![c] = "queued"]
    /\ status' = [status EXCEPT ![c].reply = o, ![c].result = StatusResult(o)]
    /\ UNCHANGED <<app, malformed, standalone, queries>>
    /\ UNCHANGED <<env, pcs_map, tavus_integrations, latest_tavus_conversation,
                   conn, tavus, bot, closedH, discH, sig, endReq, resp, posts,
                   deletes>>

----------------------------------------------------------------------------
\* Teardown.

\* The bot of session c has built its transport and registered its handlers
\* on it: it has reached runner.run.
TransportBuilt(c) == bot[c].pc \in {"running", "ending", "failed"}

\* "await task.cancel()" on the pipeline task of bot record b: a running
\* pipeline is cancelled; one whose run has already raised is over.
TaskCancel(b) == IF b.pc = "running" THEN [b EXCEPT !.pc = "cancelled"] ELSE b

\* The transport reports connection c closed.  The server's "closed" handler
\* was registered by the signaling request; the bot's on_client_disconnected
\* is registered only once the bot has built its transport.  Each handler
\* runs as a task of its own.  (A close is taken to come only after the
\* signaling request that created the connection has registered its handler.)
ConnectionClosed(c) ==
    /\ Serving
    /\ conn[c].state = "open"
    /\ conn' = [conn EXCEPT ![c].state = "closed"]
    /\ closedH' = [closedH EXCEPT ![c] = "pending"]
    /\ discH' = [discH EXCEPT ![c] =
                    IF TransportBuilt(c) THEN "pending" ELSE @]
    /\ UNCHANGED <<status, app, malformed, standalone, queries>>
    /\ UNCHANGED <<env, pcs_map, tavus_integrations, latest_tavus_conversation,
                   tavus, bot, connH, sig, endReq, resp, posts, deletes>>

\* handle_disconnected up to its first suspension: the pc_id is popped from
\* pcs_map; (offer, admin) when an integration is registered under it,
\* end_conversation is called on it, which either returns at once, and the
\* entry is deleted, or issues the DELETE and suspends.
HandleDisconnected(c) ==
    /\ Serving
    /\ closedH[c] = "pending"
    /\ pcs_map' = PopConnection(pcs_map, PcId(c))
    /\ IF conn[c].kind # "founder" /\ InTavus(tavus_integrations, PcId(c))
       THEN LET t == TavusGet(tavus_integrations, PcId(c)) IN
            IF EndConversationIssues(tavus[t])
            THEN /\ deletes' = IssueDelete(deletes, tavus[t].conversation_id)
                 /\ closedH' = [closedH EXCEPT ![c] = "deleting"]
                 /\ UNCHANGED tavus_integrations
            ELSE /\ tavus_integrations' = TavusDel(tavus_integrations, PcId(c))
                 /\ closedH' = [closedH EXCEPT ![c] = "done"]
                 /\ UNCHANGED deletes
       ELSE /\ closedH' = [closedH EXCEPT ![c] = "done"]
            /\ UNCHANGED <<tavus_integrations, deletes>>
    /\ UNCHANGED <<status, app, malformed, standalone, queries>>
    /\ UNCHANGED <<env, latest_tavus_conversation, conn, tavus, bot, discH,
                   connH, sig, endReq, resp, posts>>

\* handle_disconnected after the DELETE came back with outcome o:
\* conversation_id is cleared, then "del tavus_integrations[pc_id]", a
\* KeyError when the key is gone.
HandleDisconnectedResumes(c, o) ==
    /\ Serving
    /\ closedH[c] = "deleting"
    /\ tavus' = [tavus EXCEPT ![c] = EndConversationFinish(@)]
    /\ IF InTavus(tavus_integrations, PcId(c))
       THEN /\ tavus_integrations' = TavusDel(tavus_integrations, PcId(c))
            /\ closedH' = [closedH EXCEPT ![c] = "done"]
       ELSE /\ closedH' = [closedH EXCEPT ![c] = "error"]
            /\ UNCHANGED tavus_integrations
    /\ UNCHANGED <<status, app, malformed, standalone, queries>>
    /\ UNCHANGED <<env, pcs_map, latest_tavus_conversation, conn, bot, discH,
                   connH, sig, endReq, resp, posts, deletes>>

\* on_client_disconnected up to its first suspension.  run_founder_bot's
\* handler cancels the task.  The handlers of run_bot and run_admin_tavus_bot
\* read the local conversation_id (a NameError when it was never bound);
\* when it is set they call end_conversation, then cancel the task.
OnClientDisconnected(c) ==
    /\ Serving
    /\ discH[c] = "pending"
    /\ IF conn[c].kind = "founder"
       THEN /\ discH' = [discH EXCEPT ![c] = "done"]
            /\ bot' = [bot EXCEPT ![c] = TaskCancel(@)]
            /\ UNCHANGED deletes
       ELSE IF ~bot[c].bound
       THEN /\ discH' = [discH EXCEPT ![c] = "error"]
            /\ UNCHANGED <<bot, deletes>>
       ELSE IF bot[c].conversation_id # None /\ EndConversationIssues(tavus[c])
       THEN /\ deletes' = IssueDelete(deletes, tavus[c].conversation_id)
            /\ discH' = [discH EXCEPT ![c] = "deleting"]
            /\ UNCHANGED bot
       ELSE /\ discH' = [discH EXCEPT ![c] = "done"]
            /\ bot' = [bot EXCEPT ![c] = TaskCancel(@)]
            /\ UNCHANGED deletes
    /\ UNCHANGED <<status, app, malformed, standalone, queries>>
    /\ UNCHANGED <<env, pcs_map, tavus_integrations, latest_tavus_conversation,
                   conn, tavus, closedH, connH, sig, endReq, resp, posts>>

\* on_client_disconnected after the DELETE came back: conversation_id is
\* cleared and the task is cancelled.
OnClientDisconnectedResumes(c, o) ==
    /\ Serving
    /\ discH[c] = "deleting"
    /\ tavus' = [tavus EXCEPT ![c] = EndConversationFinish(@)]
    /\ discH' = [discH EXCEPT ![c] = "done"]
    /\ bot' = [bot EXCEPT ![c] = TaskCancel(@)]
    /\ UNCHANGED <<status, app, malformed, standalone, queries>>
    /\ UNCHANGED <<env, pcs_map, tavus_integrations, latest_tavus_conversation,
                   conn, closedH, connH, sig, endReq, resp, posts, deletes>>

\* runner.run raises in the task of session c.  run_founder_bot logs and
\* re-raises.  The except blocks of run_bot and run_admin_tavus_bot read the
\* local conversation_id (a NameError, raised in place of the error, when
\* it was never bound); when it is set they call end_conversation, which
\* returns at once or issues the DELETE and suspends; then "raise".
RunnerRaises(c) ==
    /\ Serving
    /\ bot[c].pc = "running"
    /\ IF conn[c].kind = "founder"
       THEN /\ bot' = [bot EXCEPT ![c].pc = "failed", ![c].error = "original"]
            /\ UNCHANGED deletes
       ELSE IF ~bot[c].bound
       THEN /\ bot' = [bot EXCEPT ![c].pc = "failed", ![c].error = "NameError"]
            /\ UNCHANGED deletes
       ELSE IF bot[c].conversation_id # None /\ EndConversationIssues(tavus[c])
       THEN /\ deletes' = IssueDelete(deletes, tavus[c].conversation_id)
            /\ bot' = [bot EXCEPT ![c].pc = "ending"]
       ELSE /\ bot' = [bot EXCEPT ![c].pc = "failed", ![c].error = "original"]
            /\ UNCHANGED deletes
    /\ UNCHANGED <<status, app, malformed, standalone, queries>>
    /\ UNCHANGED <<env, pcs_map, tavus_integrations, latest_tavus_conversation,
                   conn, tavus, closedH, discH, connH, sig, endReq, resp, posts>>

\* The except block after the DELETE came back: conversation_id is cleared
\* (end_conversation raises nothing) and the error is re-raised.
RunnerRaisesResumes(c, o) ==
    /\ Serving
    /\ bot[c].pc = "ending"
    /\ tavus' = [tavus EXCEPT ![c] = EndConversationFinish(@)]
    /\ bot' = [bot EXCEPT ![c].pc = "failed", ![c].error = "original"]
    /\ UNCHANGED <<status, app, malformed, standalone, queries>>
    /\ UNCHANGED <<env, pcs_map, tavus_integrations, latest_tavus_conversation,
                   conn, closedH, discH, connH, sig, endReq, resp, posts,
                   deletes>>

\* POST /api/tavus/end/{pc_id} up to its first suspension: 404 when no
\* integration is registered under p; else end_conversation, which either
\* returns at once, and the entry is deleted and "ended" returned, or issues
\* the DELETE and suspends.
EndTavusConversation(e, p) ==
    /\ Serving
    /\ endReq[e].st = "idle"
    /\ \A q \in 1..(e - 1) : endReq[q].st # "idle"
    /\ IF ~InTavus(tavus_integrations, p)
       THEN /\ endReq' = [endReq EXCEPT ![e] = [st |-> "404", pc_id |-> p,
                                                tavus |-> None]]
            /\ UNCHANGED <<tavus_integrations, deletes>>
       ELSE LET t == TavusGet(tavus_integrations, p) IN
            IF EndConversationIssues(tavus[t])
            THEN /\ deletes' = IssueDelete(deletes, tavus[t].conversation_id)
                 /\ endReq' = [endReq EXCEPT ![e] =
                                  [st |-> "deleting", pc_id |-> p, tavus |-> t]]
                 /\ UNCHANGED tavus_integrations
            ELSE /\ tavus_integrations' = TavusDel(tavus_integrations, p)
                 /\ endReq' = [endReq EXCEPT ![e] =
                                  [st |-> "ended", pc_id |-> p, tavus |-> t]]
                 /\ UNCHANGED deletes
    /\ UNCHANGED <<status, app, malformed, standalone, queries>>
    /\ UNCHANGED <<env, pcs_map, latest_tavus_conversation, conn, tavus, bot,
                   closedH, discH, connH, sig, resp, posts>>

\* POST /api/tavus/end/{pc_id} after the DELETE came back: conversation_id
\* is cleared, then "del tavus_integrations[pc_id]": a KeyError (an
\* unhandled error, answered 500) when the key is gone, else "ended".
EndTavusConversationResumes(e, o) ==
    /\ Serving
    /\ endReq[e].st = "deleting"
    /\ LET p == endReq[e].pc_id IN
       /\ tavus' = [tavus EXCEPT ![endReq[e].tavus] = EndConversationFinish(@)]
       /\ IF InTavus(tavus_integrations, p)
          THEN /\ tavus_integrations' = TavusDel(tavus_integrations, p)
               /\ endReq' = [endReq EXCEPT ![e].st = "ended"]
          ELSE /\ endReq' = [endReq EXCEPT ![e].st = "500"]
               /\ UNCHANGED tavus_integrations
    /\ UNCHANGED <<status, app, malformed, standalone, queries>>
    /\ UNCHANGED <<env, pcs_map, latest_tavus_conversation, conn, bot, closedH,
                   discH, connH, sig, resp, posts, deletes>>

----------------------------------------------------------------------------
\* The standalone create endpoints and the read-only endpoints.

\* POST /api/create-tavus-conversation (ep = "create", with company_data k)
\* and POST /api/tavus/create-conversation (ep = "legacy") up to the first
\* suspension: an integration of their own is constructed and
\* create_conversation is called on it; without persona and replica it
\* returns None at once and the request is answered 500, otherwise the POST
\* is issued.
CreateTavusConversation(s, ep, k) ==
    /\ Serving
    /\ standalone[s].st = "idle"
    /\ \A q \in 1..(s - 1) : standalone[q].st # "idle"
    /\ IF ~CreateCanPost(env)
       THEN standalone' = [standalone EXCEPT ![s] =
               [NoStandalone EXCEPT !.st = "answered", !.endpoint = ep,
                                    !.code = 500]]
       ELSE standalone' = [standalone EXCEPT ![s] =
               [NoStandalone EXCEPT !.st = "creating", !.endpoint = ep,
                                    !.posts = 1,
                                    !.payload =
                                       CreatePayload("general",
                                                     CompanyContext(ep, k),
                                                     env)]]
    /\ UNCHANGED <<env, pcs_map, tavus_integrations, latest_tavus_conversation,
                   conn, tavus, bot, closedH, discH, connH, sig, endReq, resp,
                   posts, deletes, status, app, malformed, queries>>

\* The POST of a standalone create came back with outcome o: on data it is
\* stored as the latest conversation and returned, otherwise 500.
CreateTavusConversationReturns(s, o) ==
    /\ Serving
    /\ standalone[s].st = "creating"
    /\ LET data == CreateData(o, StandaloneConvId(s)) IN
       /\ latest_tavus_conversation' =
             LatestAfterCreate(latest_tavus_conversation, data)
       /\ standalone' = [standalone EXCEPT ![s].st = "answered",
                                           ![s].code =
                                              IF data # None THEN 200 ELSE 500,
                                           ![s].data = data,
                                           ![s].payload = NoPayload,
                                           ![s].response = o]
    /\ UNCHANGED <<env, pcs_map, tavus_integrations, conn, tavus, bot, closedH,
                   discH, connH, sig, endReq, resp, posts, deletes, status, app,
                   malformed, queries>>

\* (an endpoint that looks for the data under a name the bots never set)
StoredDataUnset(t) == None

\* "hasattr(tavus, 'conversation_data') and tavus.conversation_data": the
\* data the bot kept on integration t, None when there is none.
StoredData(t) == t.conversation_data

\* (a status endpoint that takes a persona in place of the replica)
StatusConfiguredByEitherId(e) == e.api_key /\ (e.replica_id \/ e.persona_id)

\* get_tavus_status: "if not api_key or not replica_id" raises 500.
StatusConfigured(e) == e.api_key /\ e.replica_id

\* GET /api/tavus/status: 500 when the key or the replica is missing, else
\* the configuration and the sizes of the two registries.
GetTavusStatus(q) ==
    /\ Serving
    /\ queries[q].st = "idle"
    /\ \A r \in 1..(q - 1) : queries[r].st # "idle"
    /\ IF ~StatusConfigured(env)
       THEN queries' = [queries EXCEPT ![q] =
               [NoQuery EXCEPT !.st = "answered", !.endpoint = "status",
                               !.code = 500]]
       ELSE queries' = [queries EXCEPT ![q] =
               [NoQuery EXCEPT !.st = "answered", !.endpoint = "status",
                               !.code = 200,
                               !.body = [NoBody EXCEPT
                                  !.status = "configured",
                                  !.active_connections =
                                     Cardinality(PcsKeys(pcs_map)),
                                  !.tavus_integrations =
                                     Len(tavus_integrations)]]]
    /\ UNCHANGED <<env, pcs_map, tavus_integrations, latest_tavus_conversation,
                   conn, tavus, bot, closedH, discH, connH, sig, endReq, resp,
                   posts, deletes, status, app, malformed, standalone>>

\* GET /api/tavus/latest: 404 when tavus_integrations is empty, else the
\* last key of tavus_integrations and the data of its integration (its id
\* and url with status "active" when it holds no data).
GetLatestTavusConversation(q) ==
    /\ Serving
    /\ queries[q].st = "idle"
    /\ \A r \in 1..(q - 1) : queries[r].st # "idle"
    /\ IF tavus_integrations = << >>
       THEN queries' = [queries EXCEPT ![q] =
               [NoQuery EXCEPT !.st = "answered", !.endpoint = "latest",
                               !.code = 404]]
       ELSE LET last == tavus_integrations[Len(tavus_integrations)]
                t == tavus[last.tavus]
            IN queries' = [queries EXCEPT ![q] =
                  [NoQuery EXCEPT !.st = "answered", !.endpoint = "latest",
                                  !.code = 200,
                                  !.body = [NoBody EXCEPT
                                     !.pc_id = last.pc_id,
                                     !.data =
                                        IF StoredData(t) # None
                                        THEN StoredData(t)
                                        ELSE t.conversation_id,
                                     !.status =
                                        IF StoredData(t) # None
                                        THEN "none" ELSE "active"]]]
    /\ UNCHANGED <<env, pcs_map, tavus_integrations, latest_tavus_conversation,
                   conn, tavus, bot, closedH, discH, connH, sig, endReq, resp,
                   posts, deletes, status, app, malformed, standalone>>

\* GET /api/tavus/conversation/{pc_id}: 404 when no integration is
\* registered under p; else the data of the integration; without data it
\* falls back to get_conversation_status, which returns its sentinel at once
\* or issues the GET and suspends.
GetTavusConversationUrl(q, p) ==
    /\ Serving
    /\ queries[q].st = "idle"
    /\ \A r \in 1..(q - 1) : queries[r].st # "idle"
    /\ IF ~InTavus(tavus_integrations, p)
       THEN queries' = [queries EXCEPT ![q] =
               [NoQuery EXCEPT !.st = "answered", !.endpoint = "conversation",
                               !.pc_id = p, !.code = 404]]
       ELSE LET t == tavus[TavusGet(tavus_integrations, p)] IN
            IF StoredData(t) # None
            THEN queries' = [queries EXCEPT ![q] =
                    [NoQuery EXCEPT !.st = "answered",
                                    !.endpoint = "conversation",
                                    !.pc_id = p, !.code = 200,
                                    !.body = [NoBody EXCEPT
                                       !.data = StoredData(t)]]]
            ELSE IF StatusIssues(t)
            THEN queries' = [queries EXCEPT ![q] =
                    [NoQuery EXCEPT !.st = "status",
                                    !.endpoint = "conversation", !.pc_id = p]]
            ELSE queries' = [queries EXCEPT ![q] =
                    [NoQuery EXCEPT !.st = "answered",
                                    !.endpoint = "conversation",
                                    !.pc_id = p, !.code = 200,
                                    !.body = [NoBody EXCEPT
                                       !.status = StatusSentinel]]]
    /\ UNCHANGED <<env, pcs_map, tavus_integrations, latest_tavus_conversation,
                   conn, tavus, bot, closedH, discH, connH, sig, endReq, resp,
                   posts, deletes, status, app, malformed, standalone>>

\* The loop of get_active_conversations from one call of the iterator's
\* next to the first suspension or the end, over dict d and integrations tv,
\* for request record r.  next raises RuntimeError when the dict's size is
\* not the size the iterator was made with, and when it finds an item after
\* having yielded as many as that size; an unhandled error, answered 500.
\* Otherwise it yields the first entry it has not yielded (a dict keeps
\* insertion order, a deleted key leaves its place empty and a new key goes
\* to the end).  The body calls get_conversation_status, which returns its
\* sentinel at once, and the entry is appended and the loop goes on, or
\* issues the GET and suspends.  At the end the list is returned.
RECURSIVE ConversationsLoop(_, _, _)
ConversationsLoop(d, tv, r) ==
    LET rest == SelectSeq(d, LAMBDA e : e.pc_id \notin r.iter.yielded)
        failed == [r EXCEPT !.st = "answered", !.code = 500,
                            !.body = NoBody, !.iter = NoIter]
    IN IF Len(d) # r.iter.used THEN failed
       ELSE IF rest = << >>
       THEN [r EXCEPT !.st = "answered", !.code = 200, !.iter = NoIter]
       ELSE IF Cardinality(r.iter.yielded) >= r.iter.used THEN failed
       ELSE LET e == Head(rest)
                r1 == [r EXCEPT !.iter.yielded = @ \cup {e.pc_id}]
            IN IF StatusIssues(tv[e.tavus])
               THEN [r1 EXCEPT !.st = "iterating",
                               !.iter.cur = [pc_id |-> e.pc_id,
                                             tavus |-> e.tavus]]
               ELSE ConversationsLoop(d, tv,
                       [r1 EXCEPT !.body.conversations =
                           Append(@, [pc_id |-> e.pc_id,
                                      conversation_id |->
                                         tv[e.tavus].conversation_id,
                                      status |-> StatusSentinel])])

\* GET /api/tavus/conversations up to its first suspension: the iterator
\* over tavus_integrations is made and the loop runs.
GetActiveConversations(q) ==
    /\ Serving
    /\ queries[q].st = "idle"
    /\ \A r \in 1..(q - 1) : queries[r].st # "idle"
    /\ queries' = [queries EXCEPT ![q] =
          ConversationsLoop(tavus_integrations, tavus,
             [NoQuery EXCEPT !.endpoint = "conversations",
                             !.iter.used = Len(tavus_integrations)])]
    /\ UNCHANGED <<env, pcs_map, tavus_integrations, latest_tavus_conversation,
                   conn, tavus, bot, closedH, discH, connH, sig, endReq, resp,
                   posts, deletes, status, app, malformed, standalone>>

\* The GET of the loop body came back with outcome o: the entry is appended
\* with the integration's conversation_id as it is now and the status of the
\* result, and the loop goes on.
GetActiveConversationsResumes(q, o) ==
    /\ Serving
    /\ queries[q].st = "iterating"
    /\ LET cur == queries[q].iter.cur IN
       queries' = [queries EXCEPT ![q] =
          ConversationsLoop(tavus_integrations, tavus,
             [queries[q] EXCEPT
                 !.iter.cur = NoItem,
                 !.body.conversations =
                    Append(@, [pc_id |-> cur.pc_id,
                               conversation_id |->
                                  tavus[cur.tavus].conversation_id,
                               status |-> StatusResult(o)])])]
    /\ UNCHANGED <<env, pcs_map, tavus_integrations, latest_tavus_conversation,
                   conn, tavus, bot, closedH, discH, connH, sig, endReq, resp,
                   posts, deletes, status, app, malformed, standalone>>

----------------------------------------------------------------------------
\* Requests that are refused, and the end of the process.

\* A signaling request (any of the three endpoints) whose offer lacks
\* field f.  request["sdp"] / request["type"] raises KeyError: on the
\* renegotiation path while the arguments of renegotiate are evaluated, on
\* the new-session path after the connection object is constructed and
\* before initialize is called (the object is dropped).  No handler catches
\* the error, so the request is answered 500.
SignalMalformed(m, ep, p, f) ==
    /\ Serving
    /\ malformed[m].st = "idle"
    /\ \A q \in 1..(m - 1) : malformed[q].st # "idle"
    /\ malformed' = [malformed EXCEPT ![m] =
          [st |-> "answered", code |-> 500,
           path |-> IF TakesExisting(p) THEN "existing" ELSE "new",
           missing |-> f]]
    /\ UNCHANGED <<env, pcs_map, tavus_integrations, latest_tavus_conversation,
                   conn, tavus, bot, closedH, discH, connH, sig, endReq, resp,
                   posts, deletes, status, app, standalone, queries>>

\* "app = FastAPI()": the application is constructed without a lifespan
\* argument, so the lifespan context manager defined at the end of server.py
\* is not the one the server runs.
LifespanRegistered == FALSE

\* lifespan, after its yield: disconnect() on every connection of pcs_map,
\* then pcs_map.clear().
LifespanDisconnects(m) == {m[p] : p \in PcsKeys(m)}
LifespanClears(m) == [p \in DOMAIN m |-> None]

\* The process shuts down (uvicorn.run returns): the server runs the exit
\* part of the application's lifespan, the default one unless lifespan was
\* registered, and the process ends.
Shutdown ==
    /\ Serving
    /\ IF LifespanRegistered
       THEN /\ app' = [st |-> "stopped",
                       disconnected |-> LifespanDisconnects(pcs_map)]
            /\ pcs_map' = LifespanClears(pcs_map)
       ELSE /\ app' = [app EXCEPT !.st = "stopped"]
            /\ UNCHANGED pcs_map
    /\ UNCHANGED <<env, tavus_integrations, latest_tavus_conversation, conn,
                   tavus, bot, closedH, discH, connH, sig, endReq, resp, posts,
                   deletes, status, malformed, standalone, queries>>

----------------------------------------------------------------------------
\* New-session signaling, with at most n connections ever created.
NewSessionSteps(n) ==
    \/ \E ep \in Endpoints, p \in PcIds \cup {None} :
          Cardinality(Born) < n /\ SignalNewStart(ep, p)
    \/ \E c \in Conns : SignalNewFinish(c)

\* The background tasks.
TaskSteps ==
    \/ \E c \in Conns, k \in CompanyData : BotStart(c, k)
    \/ \E c \in Conns, o \in CreateOutcomes : BotCreateReturns(c, o)

\* The bot's handler of a connecting client.
ConnectSteps ==
    \/ \E c \in Conns : ClientConnected(c)
    \/ \E c \in Conns, o \in StatusOutcomes : ClientConnectedStatusReturns(c, o)

\* A connection closes and the server's "closed" handler runs up to its
\* first suspension.
CloseSteps ==
    \/ \E c \in Conns : ConnectionClosed(c)
    \/ \E c \in Conns : HandleDisconnected(c)

\* The rest of the teardown: the "closed" handler after its DELETE, and the
\* bot's on_client_disconnected.
TeardownSteps ==
    \/ \E c \in Conns, o \in DeleteOutcomes : HandleDisconnectedResumes(c, o)
    \/ \E c \in Conns : OnClientDisconnected(c)
    \/ \E c \in Conns, o \in DeleteOutcomes : OnClientDisconnectedResumes(c, o)

\* The pipeline run of a background task raises.
FailureSteps ==
    \/ \E c \in Conns : RunnerRaises(c)
    \/ \E c \in Conns, o \in DeleteOutcomes : RunnerRaisesResumes(c, o)

\* The life cycle of up to n sessions: new-session signaling, the background
\* task, the close of the connection and the handlers it starts.
LifecycleSteps(n) ==
    NewSessionSteps(n) \/ TaskSteps \/ CloseSteps \/ TeardownSteps

\* The steps of up to n sessions themselves: their life cycle and the bot's
\* handler of a connecting client.
SessionSteps(n) == LifecycleSteps(n) \/ ConnectSteps

\* Up to n signaling requests that name an existing session.
RenegotiationSteps(n) ==
    \/ \E r \in 1..n, ep \in Endpoints, p \in PcIds \cup {None} :
          SignalExistingStart(r, ep, p)
    \/ \E r \in 1..n : SignalExistingFinish(r)
    \/ \E r \in 1..n : SignalExistingFails(r)

\* Up to n POST /api/tavus/end/{pc_id} requests, each naming the pc_id of one
\* of the first k connections (created already or not).
EndSteps(n, k) ==
    \/ \E e \in 1..n, c \in 1..k : EndTavusConversation(e, PcId(c))
    \/ \E e \in 1..n, o \in DeleteOutcomes : EndTavusConversationResumes(e, o)

\* Up to n requests to the standalone create endpoints.
StandaloneSteps(n) ==
    \/ \E s \in 1..n, ep \in {"create", "legacy"}, k \in CompanyData :
          CreateTavusConversation(s, ep, k)
    \/ \E s \in 1..n, o \in CreateOutcomes :
          CreateTavusConversationReturns(s, o)

\* Up to n requests to one of the read-only endpoints; a conversation
\* request names the pc_id of one of the first k connections.
StatusQuerySteps(n) == \E q \in 1..n : GetTavusStatus(q)
LatestQuerySteps(n) == \E q \in 1..n : GetLatestTavusConversation(q)
ConversationQuerySteps(n, k) ==
    \E q \in 1..n, c \in 1..k : GetTavusConversationUrl(q, PcId(c))
ConversationsQuerySteps(n) ==
    \/ \E q \in 1..n : GetActiveConversations(q)
    \/ \E q \in 1..n, o \in StatusOutcomes :
          GetActiveConversationsResumes(q, o)

\* Up to n signaling requests with an incomplete offer.
MalformedSteps(n) ==
    \E m \in 1..n, ep \in Endpoints, p \in PcIds \cup {None},
       f \in OfferFields : SignalMalformed(m, ep, p, f)

\* The sessions, the signaling requests that renegotiate them and the
\* requests that end their conversations.
Next ==
    SessionSteps(MaxConns) \/ RenegotiationSteps(MaxReneg) \/ EndSteps(MaxEnds, MaxConns)

Spec == Init /\ [][Next]_vars

\* The life cycle of the sessions and the signaling requests that
\* renegotiate them.  (on_client_connected, which writes nothing the
\* requests or the teardown read, is left to Spec and SpecStatus.)
NextSignaling == LifecycleSteps(MaxConns) \/ RenegotiationSteps(MaxReneg)

SpecSignaling == Init /\ [][NextSignaling]_vars

\* The life cycle of the sessions and the requests that end their
\* conversations.
NextTeardown == LifecycleSteps(MaxConns) \/ EndSteps(TeardownEnds, MaxConns)

SpecTeardown == Init /\ [][NextTeardown]_vars

\* The sessions while their connections are open, with the status query of
\* a connecting client, and the requests that end their conversations.
NextStatus ==
    NewSessionSteps(MaxConns) \/ TaskSteps \/ ConnectSteps
       \/ EndSteps(TeardownEnds, MaxConns)

SpecStatus == Init /\ [][NextStatus]_vars

\* The registry of connections: the signaling requests, the closes and the
\* "closed" handlers of several sessions.  The background tasks are left
\* unscheduled: they neither read nor write pcs_map.
NextRegistry ==
    NewSessionSteps(RegistryConns) \/ CloseSteps \/ RenegotiationSteps(MaxReneg)

SpecRegistry == Init /\ [][NextRegistry]_vars

\* The same with more renegotiating requests.
NextReuse ==
    NewSessionSteps(RegistryConns) \/ CloseSteps
       \/ RenegotiationSteps(ReuseReneg)

SpecReuse == Init /\ [][NextReuse]_vars

\* The sessions and the signaling requests, well-formed or not.
NextMalformed ==
    SessionSteps(MaxConns) \/ RenegotiationSteps(MaxReneg)
       \/ MalformedSteps(MaxMalformed)

SpecMalformed == Init /\ [][NextMalformed]_vars

\* The sessions up to the shutdown of the process.
NextShutdown == SessionSteps(MaxConns) \/ Shutdown

SpecShutdown == Init /\ [][NextShutdown]_vars

\* The life cycle of the sessions, with pipeline runs that raise.
NextFailure == LifecycleSteps(MaxConns) \/ FailureSteps

SpecFailure == Init /\ [][NextFailure]_vars

\* The sessions while their connections are open and the standalone create
\* requests.
NextStandalone ==
    NewSessionSteps(MaxConns) \/ TaskSteps \/ StandaloneSteps(MaxStandalone)

SpecStandalone == Init /\ [][NextStandalone]_vars

\* The same with requests for the latest conversation.
NextLatest == NextStandalone \/ LatestQuerySteps(MaxQueries)

SpecLatest == Init /\ [][NextLatest]_vars

\* The life cycle of the sessions and requests for their conversations.
NextConversation ==
    LifecycleSteps(MaxConns) \/ ConversationQuerySteps(MaxQueries, MaxConns)

SpecConversation == Init /\ [][NextConversation]_vars

\* The registries under every configuration: new sessions, their tasks,
\* the closes and the "closed" handlers, and requests for the configuration
\* status.  (on_client_disconnected touches neither registry.)
NextConfig ==
    NewSessionSteps(MaxConns) \/ TaskSteps \/ CloseSteps
       \/ (\E c \in Conns, o \in DeleteOutcomes :
              HandleDisconnectedResumes(c, o))
       \/ StatusQuerySteps(MaxQueries)

SpecConfig == InitConfig /\ [][NextConfig]_vars

\* The life cycle of the sessions, the requests that end their
\* conversations and requests for the list of conversations.
NextConversations ==
    NextTeardown \/ ConversationsQuerySteps(MaxQueries)

SpecConversations == Init /\ [][NextConversations]_vars

\* The create calls of the sessions and of the standalone requests under
\* every configuration.
SpecPayload == InitConfig /\ [][NextStandalone]_vars

\* Several sessions side by side: new sessions, their tasks, the closes and
\* the "closed" handlers.
NextFounder ==
    NewSessionSteps(RegistryConns) \/ TaskSteps \/ CloseSteps
       \/ (\E c \in Conns, o \in DeleteOutcomes :
              HandleDisconnectedResumes(c, o))

SpecFounder == Init /\ [][NextFounder]_vars

----------------------------------------------------------------------------
\* Properties.

EndFinished(e) == endReq[e].st \in {"ended", "404", "500"}

\* The conversation of session c was created (the bot bound its id).
Created(c) == bot[c].bound

\* create_conversation returned None to the bot of session c.
CreateFailed(c) == bot[c].create \in {"precondition", "refused", "raised"}

\* Session c is over: its connection closed, the handlers the close started
\* have run to their end, and no request that ends its conversation is
\* still in flight.
SessionOver(c) ==
    /\ conn[c].state = "closed"
    /\ closedH[c] \in {"done", "error"}
    /\ discH[c] \in {"idle", "done", "error"}
    /\ bot[c].pc \in {"running", "cancelled", "failed"}
    /\ \A e \in 1..MaxEnds :
          endReq[e].st = "deleting" => endReq[e].pc_id # PcId(c)

\* C1: for every session whose conversation was created, exactly one DELETE
\* is issued for the conversation over the session's lifetime: never more
\* than one, and one once the session is over.
C1_ExactlyOneDelete ==
    \A c \in Conns :
       Created(c) =>
          /\ deletes[ConvId(c)] <= 1
          /\ SessionOver(c) => deletes[ConvId(c)] = 1

\* C2: once the "closed" handler has run for a connection, pcs_map does not
\* hold the connection's pc_id.
C2_ClosedIsAbsent ==
    \A c \in Conns :
       closedH[c] \in {"deleting", "done", "error"}
          => ~InPcsMap(pcs_map, PcId(c))

\* C3: of two end requests for the same registered pc_id, exactly one
\* returns "ended" and the other returns 404.
C3_OneEndedOne404 ==
    \A e1, e2 \in 1..MaxEnds :
       (/\ e1 < e2
        /\ EndFinished(e1) /\ EndFinished(e2)
        /\ endReq[e1].pc_id = endReq[e2].pc_id
        /\ ~(endReq[e1].st = "404" /\ endReq[e2].st = "404"))
          => {endReq[e1].st, endReq[e2].st} = {"ended", "404"}

\* C4: when the "closed" handler and an end request race for one pc_id,
\* neither ends in an unhandled error: the handler never fails on deleting
\* the key, and the only end request received is never answered 500.
C4_NoUnhandledError ==
    /\ \A c \in Conns : closedH[c] # "error"
    /\ \A e \in 1..MaxEnds :
          (\A q \in 1..MaxEnds : q # e => endReq[q].st = "idle")
             => endReq[e].st # "500"

\* C5: every conversation that was created has had its DELETE issued once
\* the session is over.
C5_CreatedIsDeleted ==
    \A c \in Conns :
       Created(c) /\ SessionOver(c) => deletes[ConvId(c)] >= 1

\* C6: when create_conversation returned None in run_bot or
\* run_admin_tavus_bot, the bot's handlers do not fail: a handled connect
\* has queued the frames and a handled disconnect has cancelled the task.
C6_VoiceSessionWorks ==
    \A c \in Conns :
       conn[c].kind \in {"offer", "admin"} /\ CreateFailed(c) =>
          /\ connH[c] \in {"idle", "queued"}
          /\ discH[c] \in {"idle", "pending", "done"}
          /\ discH[c] = "done" => bot[c].pc = "cancelled"

\* C7: when the provider refused the create call, the signaling request has
\* returned its answer, the integration's conversation_id is unset and no
\* entry of tavus_integrations is under the session's pc_id.
C7_RefusedCreate ==
    \A c \in Conns :
       bot[c].create = "refused" =>
          /\ resp[c] = "answered"
          /\ tavus[c].conversation_id = None
          /\ ~InTavus(tavus_integrations, PcId(c))

\* A session whose create call was refused and which then closed.
C7_Witness ==
    \E c \in Conns :
       bot[c].create = "refused" /\ posts[c] = 1 /\ conn[c].state = "closed"
          /\ closedH[c] = "done"

\* C8: a new-session request returns its answer with the session stored in
\* pcs_map under a pc_id that was no key before, with no entry in
\* tavus_integrations and with no create call issued yet; the create call
\* of a session is issued only after that answer.
C8_StoredBeforeCreate ==
    [][\A c \in Conns :
          /\ (resp[c] # "answered" /\ resp'[c] = "answered") =>
                /\ ~InPcsMap(pcs_map, PcId(c))
                /\ InPcsMap(pcs_map', PcId(c)) /\ pcs_map'[PcId(c)] = c
                /\ ~InTavus(tavus_integrations', PcId(c))
                /\ posts'[c] = 0
          /\ (posts'[c] > posts[c]) => resp[c] = "answered"]_vars

\* A new session was answered and its create call was issued afterwards.
C8_Witness ==
    \E c \in Conns : resp[c] = "answered" /\ posts[c] = 1

\* C9: a signaling request whose pc_id is in pcs_map changes nothing but
\* its own progress: no connection, integration, task or handler is
\* created, and the keys of pcs_map and tavus_integrations stay as they are.
C9_RenegotiateOnly ==
    [][\A r \in SigReqs :
          sig'[r] # sig[r] =>
             /\ PcsKeys(pcs_map') = PcsKeys(pcs_map)
             /\ tavus_integrations' = tavus_integrations
             /\ conn' = conn /\ tavus' = tavus /\ bot' = bot
             /\ closedH' = closedH /\ posts' = posts]_vars

\* C10: end_conversation called on an integration whose conversation_id is
\* unset issues no DELETE, returns at once to its caller (the "closed"
\* handler, on_client_disconnected, the end endpoint) and leaves every
\* integration as it is.
C10_EndWithoutIdIsNoop ==
    [][/\ \A c \in Conns :
             (/\ closedH[c] = "pending" /\ closedH'[c] # "pending"
              /\ conn[c].kind # "founder"
              /\ InTavus(tavus_integrations, PcId(c))
              /\ tavus[TavusGet(tavus_integrations, PcId(c))].conversation_id
                    = None)
                => deletes' = deletes /\ tavus' = tavus /\ closedH'[c] = "done"
       /\ \A c \in Conns :
             (/\ discH[c] = "pending" /\ discH'[c] # "pending"
              /\ conn[c].kind # "founder"
              /\ bot[c].bound
              /\ tavus[c].conversation_id = None)
                => deletes' = deletes /\ tavus' = tavus /\ discH'[c] = "done"
       /\ \A e \in 1..MaxEnds :
             (/\ endReq[e].st = "idle" /\ endReq'[e].st # "idle"
              /\ InTavus(tavus_integrations, endReq'[e].pc_id)
              /\ tavus[TavusGet(tavus_integrations,
                                endReq'[e].pc_id)].conversation_id = None)
                => deletes' = deletes /\ tavus' = tavus
                   /\ endReq'[e].st = "ended"]_vars

\* Both teardown handlers of a created session have run and only one DELETE
\* went out: the later of the two called end_conversation with the id unset.
C10_Witness ==
    \E c \in Conns :
       /\ Created(c)
       /\ closedH[c] = "done" /\ discH[c] = "done"
       /\ deletes[ConvId(c)] = 1
       /\ \A e \in 1..MaxEnds : endReq[e].st = "idle"

\* The callers of end_conversation on integration t that are suspended in
\* its DELETE.
Deleting(t) ==
    Cardinality({h \in {"closed", "disconnected", "except"} :
                    \/ h = "closed" /\ closedH[t] = "deleting"
                    \/ h = "disconnected" /\ discH[t] = "deleting"
                    \/ h = "except" /\ bot[t].pc = "ending"})
       + Cardinality({e \in 1..MaxEnds :
                         endReq[e].st = "deleting" /\ endReq[e].tavus = t})

\* An end_conversation call on integration t that issued its DELETE has
\* returned: more DELETEs went out than calls are still suspended.
EndReturned(t) == deletes[ConvId(t)] > Deleting(t)

\* C11: when end_conversation returns after its DELETE (whatever the DELETE
\* came back with), conversation_id is unset; from then on it stays unset
\* and a further end_conversation call on the integration issues no DELETE
\* and returns at once.
C11_EndClearsId ==
    [][\A t \in Conns :
          /\ Deleting(t)' < Deleting(t) => tavus'[t].conversation_id = None
          /\ EndReturned(t) =>
                /\ tavus[t].conversation_id = None
                /\ deletes'[ConvId(t)] = deletes[ConvId(t)]
                /\ Deleting(t)' <= Deleting(t)]_vars

\* on_client_disconnected and an end request both called end_conversation
\* on a created conversation and both returned, with one DELETE issued: the
\* later call came after the earlier one had returned.
C11_Witness ==
    \E c \in Conns, e \in 1..MaxEnds :
       /\ Created(c) /\ discH[c] = "done"
       /\ endReq[e].st = "ended" /\ endReq[e].tavus = c
       /\ deletes[ConvId(c)] = 1

\* The background task of session c has called create_conversation.
CreateCalled(c) ==
    conn[c].kind # "founder" /\ bot[c].pc \notin {"none", "scheduled"}

\* C12: create_conversation on an integration with neither persona_id nor
\* replica_id returns None without issuing the POST and leaves
\* conversation_id and conversation_url unset.
C12_NoIdsNoPost ==
    \A c \in Conns :
       (~env.persona_id /\ ~env.replica_id /\ CreateCalled(c)) =>
          /\ bot[c].create = "precondition" /\ ~bot[c].bound
          /\ posts[c] = 0
          /\ tavus[c].conversation_id = None
          /\ tavus[c].conversation_url = None

\* A background task called create_conversation with neither id configured
\* and went on to run its pipeline.
C12_Witness ==
    \E c \in Conns :
       /\ ~env.persona_id /\ ~env.replica_id
       /\ CreateCalled(c) /\ bot[c].pc = "running"

\* C13: a create_conversation call issues at most one POST and does not
\* retry; when the POST comes back it returns the response data, with
\* conversation_id and conversation_url set from it, exactly when the status
\* is 200 or 201; on any other status and when the request raised it returns
\* None and leaves conversation_id and conversation_url as they were; in
\* both cases the caller goes on (nothing is raised).
C13_CreateOutcome ==
    [][\A c \in Conns :
          /\ posts'[c] <= 1
          /\ (bot[c].pc = "creating" /\ bot'[c].pc # "creating") =>
                /\ posts'[c] = posts[c]
                /\ bot'[c].pc = "running"
                /\ IF /\ bot'[c].response.kind = "response"
                      /\ bot'[c].response.status \in {200, 201}
                   THEN /\ bot'[c].create = "data" /\ bot'[c].bound
                        /\ tavus'[c].conversation_id = ConvId(c)
                        /\ tavus'[c].conversation_url = ConvId(c)
                   ELSE /\ bot'[c].create \in {"refused", "raised"}
                        /\ ~bot'[c].bound
                        /\ tavus'[c].conversation_id
                              = tavus[c].conversation_id
                        /\ tavus'[c].conversation_url
                              = tavus[c].conversation_url]_vars

\* A create call whose POST came back with 201 returned the data.
C13_Witness ==
    \E c \in Conns :
       /\ bot[c].response = Response(201) /\ bot[c].create = "data"
       /\ posts[c] = 1

\* C14: get_conversation_status, called by on_client_connected, returns its
\* sentinel without a GET when conversation_id is unset; else it issues one
\* GET and returns the provider's payload when the GET comes back with 200
\* and {status: error} on any other status and when the request raised.  It
\* never raises (on_client_connected goes on to queue its frames) and never
\* changes an integration.
C14_StatusResult ==
    [][\A c \in Conns :
          /\ status'[c] # status[c] => tavus' = tavus
          /\ (/\ connH[c] = "idle" /\ connH'[c] # "idle"
              /\ conn[c].kind = "offer" /\ bot[c].bound) =>
                IF tavus[c].conversation_id = None
                THEN /\ connH'[c] = "queued"
                     /\ status'[c] = [gets |-> 0, reply |-> NoOutcome,
                                      result |-> "no_conversation"]
                ELSE /\ connH'[c] = "status"
                     /\ status'[c] = [gets |-> 1, reply |-> NoOutcome,
                                      result |-> "none"]
          /\ (connH[c] = "status" /\ connH'[c] # "status") =>
                /\ connH'[c] = "queued"
                /\ status'[c].gets = 1
                /\ status'[c].reply \in StatusOutcomes
                /\ status'[c].result =
                      IF status'[c].reply = Response(200)
                      THEN "payload" ELSE "error"]_vars

\* A client connected after an end request had ended the conversation, and
\* the status query returned its sentinel; the frames were queued.
C14_Witness ==
    \E c \in Conns :
       /\ status[c].result = "no_conversation" /\ connH[c] = "queued"
       /\ Created(c) /\ tavus[c].conversation_id = None

\* C15: when the process shuts down, disconnect is invoked on every
\* connection that pcs_map holds at that moment, and pcs_map is empty
\* afterwards.
C15_ShutdownDisconnectsAll ==
    [][(app.st = "serving" /\ app'.st = "stopped") =>
          /\ app'.disconnected = {pcs_map[p] : p \in PcsKeys(pcs_map)}
          /\ PcsKeys(pcs_map') = {}]_vars

\* C16: a signaling request whose offer lacks "sdp" or "type" is answered
\* with a client error (a 4xx status); pcs_map and tavus_integrations are
\* unchanged and no background task is scheduled.
C16_MalformedIsClientError ==
    [][\A m \in 1..MaxMalformed :
          malformed'[m] # malformed[m] =>
             /\ malformed'[m].st = "answered"
             /\ malformed'[m].code \in 400..499
             /\ pcs_map' = pcs_map
             /\ tavus_integrations' = tavus_integrations
             /\ bot' = bot /\ conn' = conn]_vars

\* C17: a signaling request on the new-session path adds a key of its own
\* to pcs_map: the pc_id it is answered with was no key before and maps to
\* the request's connection afterwards, the entry of every other pc_id is
\* as it was, and the pc_ids of two distinct connections differ.
C17_NewSessionAddsOwnKey ==
    [][\A c \in Conns :
          (resp[c] # "answered" /\ resp'[c] = "answered") =>
             /\ ~InPcsMap(pcs_map, PcId(c))
             /\ \A d \in Born \ {c} : PcId(d) # PcId(c)
             /\ pcs_map'[PcId(c)] = c
             /\ \A p \in PcIds \ {PcId(c)} : pcs_map'[p] = pcs_map[p]
             /\ PcsKeys(pcs_map') = PcsKeys(pcs_map) \cup {PcId(c)}]_vars

\* Two sessions are live at once, each under its own key.
C17_Witness ==
    \E c, d \in Conns :
       /\ c # d
       /\ conn[c].state = "open" /\ conn[d].state = "open"
       /\ pcs_map[PcId(c)] = c /\ pcs_map[PcId(d)] = d

\* C18: the conversation_id of an integration registered in
\* tavus_integrations, once set, keeps its value for as long as the entry
\* stays registered.
C18_IdKeptWhileRegistered ==
    [][\A p \in PcIds :
          (/\ InTavus(tavus_integrations, p)
           /\ InTavus(tavus_integrations', p)
           /\ tavus[TavusGet(tavus_integrations, p)].conversation_id # None)
             => /\ TavusGet(tavus_integrations', p)
                      = TavusGet(tavus_integrations, p)
                /\ tavus'[TavusGet(tavus_integrations, p)].conversation_id
                      = tavus[TavusGet(tavus_integrations, p)].conversation_id
       ]_vars

\* The "closed" handler of connection c has run (it has popped the pc_id).
ClosedHandled(c) == closedH[c] \in {"deleting", "done", "error"}

\* C20: no session is reused after close: once the "closed" handler has run
\* for a connection, no signaling request calls renegotiate on it (a
\* request carrying its pc_id takes the new-session path), and a new-session
\* request is answered with the pc_id of a new connection, never that of a
\* closed one.
C20_NoReuseAfterClose ==
    [][/\ \A r \in SigReqs :
             (sig[r].st = "idle" /\ sig'[r].st = "renegotiate")
                => ~ClosedHandled(sig'[r].conn)
       /\ \A c \in Conns :
             (resp[c] # "answered" /\ resp'[c] = "answered")
                => /\ ~ClosedHandled(c)
                   /\ \A d \in Conns \ {c} :
                         ClosedHandled(d) => PcId(d) # PcId(c)]_vars

\* C21: whenever a session's connection is closed, the background task of
\* the session is cancelled, and the removal of the session from pcs_map does
\* not wait for the cancellation: once on_client_disconnected has run to its
\* end the task is cancelled, and once the "closed" handler has run its first
\* segment the pc_id is out of pcs_map, whatever the task's state.
C21_ClosedCancelsTask ==
    \A c \in Conns :
       /\ discH[c] \in {"done", "error"} => bot[c].pc = "cancelled"
       /\ ClosedHandled(c) => ~InPcsMap(pcs_map, PcId(c))

\* C22: when the pipeline run raises in run_bot or run_admin_tavus_bot, the
\* task ends with the original error, whether or not a conversation had been
\* created; when one had been created, end_conversation was attempted before
\* the task ended (the integration's conversation_id is unset by then).
C22_OriginalErrorReraised ==
    \A c \in Conns :
       conn[c].kind \in {"offer", "admin"} /\ bot[c].pc = "failed" =>
          /\ bot[c].error = "original"
          /\ Created(c) => tavus[c].conversation_id = None

\* C23: when POST /api/tavus/end/{pc_id} returns "ended", pc_id is a key of
\* neither tavus_integrations nor pcs_map; when it returns 404 (no
\* integration registered under pc_id) nothing but the request has changed.
C23_EndDestroysSession ==
    [][\A e \in 1..MaxEnds :
          /\ (endReq[e].st # "ended" /\ endReq'[e].st = "ended") =>
                /\ ~InTavus(tavus_integrations', endReq'[e].pc_id)
                /\ ~InPcsMap(pcs_map', endReq'[e].pc_id)
          /\ (endReq[e].st # "404" /\ endReq'[e].st = "404") =>
                /\ ~InTavus(tavus_integrations, endReq'[e].pc_id)
                /\ pcs_map' = pcs_map
                /\ tavus_integrations' = tavus_integrations
                /\ tavus' = tavus /\ deletes' = deletes
                /\ conn' = conn /\ bot' = bot]_vars

\* C24: GET /api/tavus/latest returns the data of the most recently created
\* conversation (the one the bots and the standalone create endpoints last
\* stored as latest_tavus_conversation) whenever a conversation has been
\* created, and 404 only when none has.
C24_LatestIsMostRecent ==
    [][\A q \in 1..MaxQueries :
          (queries[q].st = "idle" /\ queries'[q].endpoint = "latest") =>
             IF latest_tavus_conversation = None
             THEN queries'[q].code = 404
             ELSE /\ queries'[q].code = 200
                  /\ queries'[q].body.data = latest_tavus_conversation]_vars

\* C25: GET /api/tavus/conversation/{pc_id} is answered 404 exactly when
\* pc_id is an unknown session id (a key of neither registry), and with
\* conversation data for every known session; it never ends in an unhandled
\* error.
C25_ConversationOfKnownSession ==
    [][\A q \in 1..MaxQueries :
          (queries[q].st = "idle" /\ queries'[q].endpoint = "conversation") =>
             /\ queries'[q].st = "answered"
             /\ queries'[q].code \in {200, 404}
             /\ IF \/ InPcsMap(pcs_map, queries'[q].pc_id)
                   \/ InTavus(tavus_integrations, queries'[q].pc_id)
                THEN /\ queries'[q].code = 200
                     /\ queries'[q].body.data # None
                ELSE queries'[q].code = 404]_vars

\* C25 (amended): GET /api/tavus/conversation/{pc_id} is answered 404
\* exactly when no integration is registered under pc_id in
\* tavus_integrations, and otherwise with the conversation data of the
\* registered integration; it never ends in an unhandled error.
C25_ConversationOfRegistered ==
    [][\A q \in 1..MaxQueries :
          (queries[q].st = "idle" /\ queries'[q].endpoint = "conversation") =>
             /\ queries'[q].st = "answered"
             /\ IF InTavus(tavus_integrations, queries'[q].pc_id)
                THEN /\ queries'[q].code = 200
                     /\ queries'[q].body.data =
                           ConvId(TavusGet(tavus_integrations,
                                           queries'[q].pc_id))
                ELSE queries'[q].code = 404]_vars

\* A request for the conversation of a registered session was answered with
\* its data.
C25_Witness ==
    \E q \in 1..MaxQueries, c \in Conns :
       /\ queries[q].endpoint = "conversation" /\ queries[q].pc_id = PcId(c)
       /\ queries[q].code = 200 /\ queries[q].body.data = ConvId(c)
       /\ Created(c)

\* C26: a request to a standalone create endpoint never adds or removes an
\* entry of pcs_map or tavus_integrations; when its create call succeeds
\* (the POST came back 200 or 201) it is answered with the created data and
\* latest_tavus_conversation is replaced by that data; when it fails (no
\* POST for want of ids, another status, an exception) it is answered 500
\* and latest_tavus_conversation is left as it was.
C26_StandaloneCreate ==
    [][\A s \in Standalones :
          standalone'[s] # standalone[s] =>
             /\ pcs_map' = pcs_map
             /\ tavus_integrations' = tavus_integrations
             /\ standalone'[s].st = "creating" =>
                   latest_tavus_conversation' = latest_tavus_conversation
             /\ standalone'[s].st = "answered" =>
                   IF /\ standalone'[s].response.kind = "response"
                      /\ standalone'[s].response.status \in {200, 201}
                   THEN /\ standalone'[s].code = 200
                        /\ standalone'[s].data = StandaloneConvId(s)
                        /\ latest_tavus_conversation' = StandaloneConvId(s)
                   ELSE /\ standalone'[s].code = 500
                        /\ latest_tavus_conversation'
                              = latest_tavus_conversation]_vars

\* A standalone create succeeded after a session's conversation had been
\* created: the latest conversation, the session's before, is now the
\* standalone one, and the session's entries are in place.
C26_Witness ==
    \E s \in Standalones, c \in Conns :
       /\ standalone[s].code = 200
       /\ latest_tavus_conversation = StandaloneConvId(s)
       /\ Created(c) /\ InTavus(tavus_integrations, PcId(c))
       /\ InPcsMap(pcs_map, PcId(c))

\* C27: the conversation type alone selects the context of the create
\* payload: an interview-type integration sends the interview context and
\* greeting, a registration-type one the registration context and a general
\* one the general context, whatever the company data.
C27_TypeSelectsContext ==
    \A c \in Conns :
       bot[c].pc = "creating" =>
          bot[c].payload.context =
             (IF bot[c].payload.conversation_type = "yc_interview"
              THEN "interview"
              ELSE IF bot[c].payload.conversation_type = "registration"
              THEN "registration"
              ELSE "general")

\* C28: GET /api/tavus/status is answered 500 exactly when the API key or
\* the replica id is not configured, whatever the persona id; otherwise it
\* is answered with status "configured", active_connections the size of
\* pcs_map and tavus_integrations the size of tavus_integrations; it changes
\* neither registry.
C28_StatusOfConfiguration ==
    [][\A q \in 1..MaxQueries :
          (queries[q].st = "idle" /\ queries'[q].endpoint = "status") =>
             /\ pcs_map' = pcs_map
             /\ tavus_integrations' = tavus_integrations
             /\ queries'[q].st = "answered"
             /\ IF env.api_key /\ env.replica_id
                THEN /\ queries'[q].code = 200
                     /\ queries'[q].body.status = "configured"
                     /\ queries'[q].body.active_connections
                           = Cardinality(PcsKeys(pcs_map))
                     /\ queries'[q].body.tavus_integrations
                           = Cardinality(TavusKeys(tavus_integrations))
                ELSE queries'[q].code = 500]_vars

\* With the key and the replica configured and no persona, the status was
\* reported while one session was live with its integration registered.
C28_Witness ==
    \E q \in 1..MaxQueries :
       /\ ~env.persona_id
       /\ queries[q].endpoint = "status" /\ queries[q].code = 200
       /\ queries[q].body.active_connections = 1
       /\ queries[q].body.tavus_integrations = 1

\* C29: within a session no DELETE is issued before the session's create
\* call has returned successfully, and every DELETE that a caller issues for
\* a session (the "closed" handler, on_client_disconnected, the except
\* block of the task, an end request naming its pc_id) is for the id that
\* the session's create call returned.
C29_DeleteAfterCreateForItsId ==
    [][/\ deletes'[None] = 0
       /\ \A c \in Conns :
             deletes'[ConvId(c)] > 0 => bot'[c].create = "data"
       /\ \A c \in Conns :
             (\/ closedH[c] # "deleting" /\ closedH'[c] = "deleting"
              \/ discH[c] # "deleting" /\ discH'[c] = "deleting"
              \/ bot[c].pc # "ending" /\ bot'[c].pc = "ending"
              \/ \E e \in 1..MaxEnds :
                    /\ endReq[e].st # "deleting" /\ endReq'[e].st = "deleting"
                    /\ endReq'[e].pc_id = PcId(c))
                => /\ bot[c].create = "data" /\ bot[c].response.status
                                                   \in {200, 201}
                   /\ deletes'[ConvId(c)] = deletes[ConvId(c)] + 1
                   /\ \A id \in (ConvIds \cup {None}) \ {ConvId(c)} :
                         deletes'[id] = deletes[id]]_vars

\* Two callers of end_conversation have each issued a DELETE for one
\* session, both for the session's own conversation.
C29_Witness ==
    \E c \in Conns :
       /\ Created(c) /\ deletes[ConvId(c)] >= 2
       /\ \A id \in (ConvIds \cup {None}) \ {ConvId(c)} : deletes[id] = 0

\* C30: every key of tavus_integrations is a key of pcs_map (but while the
\* "closed" handler of the key's connection is between its pop and its
\* delete), also when the create call comes back after the "closed" handler
\* has run.
C30_IntegrationsAreLive ==
    \A p \in TavusKeys(tavus_integrations) :
       \/ InPcsMap(pcs_map, p)
       \/ \E c \in Conns : PcId(c) = p /\ closedH[c] = "deleting"

\* C31: GET /api/tavus/conversations completes without an unhandled error,
\* with one {pc_id, conversation_id, status} entry per integration, also
\* when an entry of tavus_integrations is added or removed while it is
\* suspended in a status query.
C31_ConversationsCompletes ==
    [][\A q \in 1..MaxQueries :
          (/\ queries'[q].endpoint = "conversations"
           /\ queries[q].st # "answered" /\ queries'[q].st = "answered") =>
             /\ queries'[q].code = 200
             /\ Len(queries'[q].body.conversations)
                   = Len(tavus_integrations')
             /\ {queries'[q].body.conversations[i].pc_id :
                    i \in DOMAIN queries'[q].body.conversations}
                   = TavusKeys(tavus_integrations')]_vars

\* The payloads of the create POSTs in flight.
PayloadsInFlight ==
    {bot[c].payload : c \in {d \in Conns : bot[d].pc = "creating"}}
       \cup {standalone[s].payload :
                s \in {r \in Standalones : standalone[r].st = "creating"}}

\* C32: every create request payload carries exactly one of persona_id and
\* replica_id: persona_id when a persona id is configured (with or without
\* a replica id), replica_id only when no persona id is configured; and it
\* carries the properties participant_left_timeout = 0 and language =
\* "english".
C32_PayloadIdAndProperties ==
    \A pl \in PayloadsInFlight :
       /\ Cardinality(pl.ids) = 1
       /\ env.persona_id => pl.ids = {"persona_id"}
       /\ "replica_id" \in pl.ids => ~env.persona_id /\ env.replica_id
       /\ pl.properties.participant_left_timeout = 0
       /\ pl.properties.language = "english"

\* With both ids configured, a session's create POST and a standalone one
\* are in flight, each carrying the persona.
C32_Witness ==
    /\ env.persona_id /\ env.replica_id
    /\ \E c \in Conns : bot[c].pc = "creating"
                         /\ bot[c].payload.ids = {"persona_id"}
    /\ \E s \in Standalones : standalone[s].st = "creating"
                               /\ standalone[s].payload.ids = {"persona_id"}

\* C33: a session created through /api/register-founder never issues a
\* create POST, never has an integration with a conversation and never has
\* an entry in tavus_integrations; when its connection closes, its "closed"
\* handler removes the pc_id from pcs_map, issues no DELETE and leaves
\* tavus_integrations as it is.
C33_FounderHasNoAvatar ==
    [][\A c \in Conns :
          /\ conn'[c].kind = "founder" =>
                /\ posts'[c] = 0
                /\ bot'[c].create = "none" /\ ~bot'[c].bound
                /\ tavus'[c] = NewTavus
                /\ ~InTavus(tavus_integrations', PcId(c))
          /\ (/\ conn[c].kind = "founder"
              /\ closedH[c] = "pending" /\ closedH'[c] # "pending") =>
                /\ closedH'[c] = "done"
                /\ ~InPcsMap(pcs_map', PcId(c))
                /\ \A p \in PcIds \ {PcId(c)} : pcs_map'[p] = pcs_map[p]
                /\ tavus_integrations' = tavus_integrations
                /\ deletes' = deletes /\ tavus' = tavus]_vars

\* A founder session ran its pipeline and was closed and removed while
\* another session's integration stayed registered.
C33_Witness ==
    \E c, d \in Conns :
       /\ conn[c].kind = "founder" /\ bot[c].pc = "running"
       /\ closedH[c] = "done" /\ ~InPcsMap(pcs_map, PcId(c))
       /\ d # c /\ InTavus(tavus_integrations, PcId(d))
       /\ InPcsMap(pcs_map, PcId(d))

====
